---- MODULE Spec2Model ----
(***************************************************************************)
(* The TeamSpeak 3 query client of ts3.chart.py (class Service) as a state *)
(* machine.  The Python call stack is explicit: every method of Service    *)
(* that the collector runs is a frame with a program counter named after   *)
(* the source line it stands at, so that the nesting of _send, _receive    *)
(* and _disconnect inside one another is part of the state.                *)
(*                                                                         *)
(* A Python str is represented by the byte sequence of its UTF-8 encoding  *)
(* (an injective representation): bytes.decode("utf-8") validates the      *)
(* bytes and fails on an ill-formed sequence, str concatenation is \o,     *)
(* and endswith / split on ASCII literals act on the bytes.                *)
(***************************************************************************)
EXTENDS Integers, Sequences, FiniteSets, TLC

\* Depth at which the interpreter raises RecursionError (the stand-in for
\* sys.getrecursionlimit(), counted in frames of Service methods).
MaxDepth == 9

\* Number of calls the host makes into the collector in one behaviour.
MaxCalls == 2

\* Number of transport faults the environment injects on an open socket.
MaxFaults == 1

\* Largest partial read the environment delivers short of "everything
\* pending".  Reads of 1..MaxSeg bytes reach every cut position, and step
\* over every 2-byte character, so every outcome of an arbitrary
\* fragmentation is an outcome of some fragmentation of this shape.
MaxSeg == 2

\* Pending data longer than this is delivered by one read; shorter pending
\* data is fragmented.  (The replies that exercise the framing are shorter.)
MaxFrag == 48

\* The size argument of self._sock.recv (line 269).
BUFSIZE == 4096

----------------------------------------------------------------------------
(* Literals of the source and of the wire protocol, as UTF-8 bytes.        *)

\* The terminator "msg=ok\n\r" (line 334).
TermOk ==
    <<109, 115, 103, 61, 111, 107, 10, 13>>

\* The terminator "msg=invalid\\schannelID\n\r" (line 334).
TermInvalidChannel ==
    <<109, 115, 103, 61, 105, 110, 118, 97, 108, 105, 100, 92, 115, 99,
      104, 97, 110, 110, 101, 108, 73, 68, 10, 13>>

\* The separator "\n\r" of raw.split (line 301).
LineSep ==
    <<10, 13>>

\* The literal prefix "client_id=" of the whoami pattern (line 210).
ClientIdKey ==
    <<99, 108, 105, 101, 110, 116, 95, 105, 100, 61>>

\* Status line "error id=0 msg=ok\n\r" of a successful command.
ReplyOk ==
    <<101, 114, 114, 111, 114, 32, 105, 100, 61, 48, 32, 109, 115, 103, 61,
      111, 107, 10, 13>>

\* Status line "error id=520 msg=invalid\\sloginname\\sor\\spassword\n\r".
ReplyBadLogin ==
    <<101, 114, 114, 111, 114, 32, 105, 100, 61, 53, 50, 48, 32, 109, 115,
      103, 61, 105, 110, 118, 97, 108, 105, 100, 92, 115, 108, 111, 103,
      105, 110, 110, 97, 109, 101, 92, 115, 111, 114, 92, 115, 112, 97,
      115, 115, 119, 111, 114, 100, 10, 13>>

\* Status line "error id=768 msg=invalid\\schannelID\n\r".
ReplyBadChannel ==
    <<101, 114, 114, 111, 114, 32, 105, 100, 61, 55, 54, 56, 32, 109, 115,
      103, 61, 105, 110, 118, 97, 108, 105, 100, 92, 115, 99, 104, 97, 110,
      110, 101, 108, 73, 68, 10, 13>>

\* Data line "virtualserver_id=1 client_id=5 client_channel_id=1\n\r".
WhoamiLine ==
    <<118, 105, 114, 116, 117, 97, 108, 115, 101, 114, 118, 101, 114, 95,
      105, 100, 61, 49, 32, 99, 108, 105, 101, 110, 116, 95, 105, 100, 61,
      53, 32, 99, 108, 105, 101, 110, 116, 95, 99, 104, 97, 110, 110, 101,
      108, 95, 105, 100, 61, 49, 10, 13>>

\* Data line "virtualserver_id=1 client_channel_id=1\n\r" (no client_id).
WhoamiNoId ==
    <<118, 105, 114, 116, 117, 97, 108, 115, 101, 114, 118, 101, 114, 95,
      105, 100, 61, 49, 32, 99, 108, 105, 101, 110, 116, 95, 99, 104, 97,
      110, 110, 101, 108, 95, 105, 100, 61, 49, 10, 13>>

\* Token "virtualserver_name=B\u00e4r": the a-umlaut is the two bytes 195, 164.
NameToken ==
    <<118, 105, 114, 116, 117, 97, 108, 115, 101, 114, 118, 101, 114, 95,
      110, 97, 109, 101, 61, 66, 195, 164, 114>>

\* The response field name "virtualserver_clientsonline".
K_virtualserver_clientsonline ==
    <<118, 105, 114, 116, 117, 97, 108, 115, 101, 114, 118, 101, 114, 95,
      99, 108, 105, 101, 110, 116, 115, 111, 110, 108, 105, 110, 101>>

\* The response field name "virtualserver_queryclientsonline".
K_virtualserver_queryclientsonline ==
    <<118, 105, 114, 116, 117, 97, 108, 115, 101, 114, 118, 101, 114, 95,
      113, 117, 101, 114, 121, 99, 108, 105, 101, 110, 116, 115, 111, 110,
      108, 105, 110, 101>>

\* The response field name "virtualserver_total_ping".
K_virtualserver_total_ping ==
    <<118, 105, 114, 116, 117, 97, 108, 115, 101, 114, 118, 101, 114, 95,
      116, 111, 116, 97, 108, 95, 112, 105, 110, 103>>

\* The response field name "connection_bandwidth_sent_last_second_total".
K_connection_bandwidth_sent_last_second_total ==
    <<99, 111, 110, 110, 101, 99, 116, 105, 111, 110, 95, 98, 97, 110, 100,
      119, 105, 100, 116, 104, 95, 115, 101, 110, 116, 95, 108, 97, 115,
      116, 95, 115, 101, 99, 111, 110, 100, 95, 116, 111, 116, 97, 108>>

\* The response field name "connection_bandwidth_received_last_second_total".
K_connection_bandwidth_received_last_second_total ==
    <<99, 111, 110, 110, 101, 99, 116, 105, 111, 110, 95, 98, 97, 110, 100,
      119, 105, 100, 116, 104, 95, 114, 101, 99, 101, 105, 118, 101, 100,
      95, 108, 97, 115, 116, 95, 115, 101, 99, 111, 110, 100, 95, 116, 111,
      116, 97, 108>>

\* The response field name "connection_filetransfer_bandwidth_sent".
K_connection_filetransfer_bandwidth_sent ==
    <<99, 111, 110, 110, 101, 99, 116, 105, 111, 110, 95, 102, 105, 108,
      101, 116, 114, 97, 110, 115, 102, 101, 114, 95, 98, 97, 110, 100,
      119, 105, 100, 116, 104, 95, 115, 101, 110, 116>>

\* The response field name "connection_filetransfer_bandwidth_received".
K_connection_filetransfer_bandwidth_received ==
    <<99, 111, 110, 110, 101, 99, 116, 105, 111, 110, 95, 102, 105, 108,
      101, 116, 114, 97, 110, 115, 102, 101, 114, 95, 98, 97, 110, 100,
      119, 105, 100, 116, 104, 95, 114, 101, 99, 101, 105, 118, 101, 100>>

\* The response field name "virtualserver_total_packetloss_speech".
K_virtualserver_total_packetloss_speech ==
    <<118, 105, 114, 116, 117, 97, 108, 115, 101, 114, 118, 101, 114, 95,
      116, 111, 116, 97, 108, 95, 112, 97, 99, 107, 101, 116, 108, 111,
      115, 115, 95, 115, 112, 101, 101, 99, 104>>

\* The response field name "virtualserver_total_packetloss_keepalive".
K_virtualserver_total_packetloss_keepalive ==
    <<118, 105, 114, 116, 117, 97, 108, 115, 101, 114, 118, 101, 114, 95,
      116, 111, 116, 97, 108, 95, 112, 97, 99, 107, 101, 116, 108, 111,
      115, 115, 95, 107, 101, 101, 112, 97, 108, 105, 118, 101>>

\* The response field name "virtualserver_total_packetloss_control".
K_virtualserver_total_packetloss_control ==
    <<118, 105, 114, 116, 117, 97, 108, 115, 101, 114, 118, 101, 114, 95,
      116, 111, 116, 97, 108, 95, 112, 97, 99, 107, 101, 116, 108, 111,
      115, 115, 95, 99, 111, 110, 116, 114, 111, 108>>

\* The response field name "virtualserver_total_packetloss_total".
K_virtualserver_total_packetloss_total ==
    <<118, 105, 114, 116, 117, 97, 108, 115, 101, 114, 118, 101, 114, 95,
      116, 111, 116, 97, 108, 95, 112, 97, 99, 107, 101, 116, 108, 111,
      115, 115, 95, 116, 111, 116, 97, 108>>

----------------------------------------------------------------------------
(* Text helpers: Python str operations on the byte representation.         *)

Min(a, b) == IF a < b THEN a ELSE b

\* s.endswith(t)
EndsWith(s, t) ==
    /\ Len(t) <= Len(s)
    /\ SubSeq(s, Len(s) - Len(t) + 1, Len(s)) = t

\* t occurs in s starting at index i
OccursAt(s, t, i) ==
    /\ i >= 1
    /\ i + Len(t) - 1 <= Len(s)
    /\ SubSeq(s, i, i + Len(t) - 1) = t

\* index of the first occurrence of t in s, 0 when there is none (str.find)
Find(s, t) ==
    LET hits == {i \in 1..Len(s) : OccursAt(s, t, i)}
    IN  IF hits = {} THEN 0 ELSE CHOOSE i \in hits : \A j \in hits : i <= j

\* Number of bytes of the UTF-8 sequence introduced by lead byte b,
\* 0 when b cannot start a sequence.
Utf8Len(b) ==
    IF b < 128 THEN 1
    ELSE IF b >= 194 /\ b <= 223 THEN 2
    ELSE IF b >= 224 /\ b <= 239 THEN 3
    ELSE IF b >= 240 /\ b <= 244 THEN 4
    ELSE 0

Utf8Cont(b) == b >= 128 /\ b <= 191

\* The second byte of a 3- or 4-byte sequence is further restricted
\* (no overlong forms, no surrogates, nothing above U+10FFFF).
Utf8Second(lead, b) ==
    IF lead = 224 THEN b >= 160 /\ b <= 191
    ELSE IF lead = 237 THEN b >= 128 /\ b <= 159
    ELSE IF lead = 240 THEN b >= 144 /\ b <= 191
    ELSE IF lead = 244 THEN b >= 128 /\ b <= 143
    ELSE Utf8Cont(b)

\* buf.decode("utf-8") succeeds: every byte is either a lead byte followed
\* by the continuation bytes it announces, or a continuation byte that a
\* lead byte at most three places before it announces.
Utf8Valid(buf) ==
    \A i \in 1..Len(buf) :
        IF Utf8Cont(buf[i])
        THEN \E j \in 1..3 :
                /\ i - j >= 1
                /\ Utf8Len(buf[i - j]) > j
                /\ \A k \in 1..(j - 1) : Utf8Cont(buf[i - k])
        ELSE /\ Utf8Len(buf[i]) > 0
             /\ i + Utf8Len(buf[i]) - 1 <= Len(buf)
             /\ \A k \in 1..(Utf8Len(buf[i]) - 1) : Utf8Cont(buf[i + k])
             /\ Utf8Len(buf[i]) > 2 => Utf8Second(buf[i], buf[i + 1])

\* _check_raw_data as it would be if any status line ended a response:
\* the accumulated text ends with the line end.
CheckRawData_any_line(data) == EndsWith(data, LineSep)

\* Service._check_raw_data: the accumulated text ends with a terminator.
CheckRawData(data) ==
    EndsWith(data, TermOk) \/ EndsWith(data, TermInvalidChannel)

----------------------------------------------------------------------------
(* The metrics extractor: lines 301-320 of Service._get_data.              *)

\* raw.split("\n\r")[0]: the text before the first "\n\r", all of it when
\* there is none.
FirstLine(raw) ==
    LET p == Find(raw, LineSep)
    IN  IF p = 0 THEN raw ELSE SubSeq(raw, 1, p - 1)

\* line.split(" "): the tokens between single spaces, as [at, text] with
\* `at` the index of the cut before the token (empty tokens included).
SplitSpace(line) ==
    LET cuts == {0} \cup {i \in 1..Len(line) : line[i] = 32}
                    \cup {Len(line) + 1}
    IN  {[at |-> a, text |-> SubSeq(line, a + 1, b - 1)] :
            <<a, b>> \in {c \in cuts \X cuts :
                            /\ c[1] < c[2]
                            /\ ~ \E m \in cuts : c[1] < m /\ m < c[2]}}

\* x.split("=", 1) if "=" in x else (x, ""): key and value of one token.
TokenKey(x) ==
    LET p == Find(x, <<61>>)
    IN  IF p = 0 THEN x ELSE SubSeq(x, 1, p - 1)

TokenValue(x) ==
    LET p == Find(x, <<61>>)
    IN  IF p = 0 THEN <<>> ELSE SubSeq(x, p + 1, Len(x))

\* key in d, for d = dict(...) built from the tokens of line.
HasKey(line, key) ==
    \E t \in SplitSpace(line) : TokenKey(t.text) = key

\* d[key]: dict() keeps the value of the last token carrying the key.
Lookup(line, key) ==
    LET hits == {t \in SplitSpace(line) : TokenKey(t.text) = key}
        last == CHOOSE t \in hits : \A u \in hits : u.at <= t.at
    IN  TokenValue(last.text)

IsDigit(c) == c >= 48 /\ c <= 57

\* The ASCII characters str.strip() removes.
IsSpace(c) == c \in {9, 10, 11, 12, 13, 28, 29, 30, 31, 32}

Strip(s) ==
    LET keep == {i \in 1..Len(s) : ~IsSpace(s[i])}
        lo == CHOOSE i \in keep : \A j \in keep : i <= j
        hi == CHOOSE i \in keep : \A j \in keep : j <= i
    IN  IF keep = {} THEN <<>> ELSE SubSeq(s, lo, hi)

\* A digit group of a numeric literal: digits, single underscores allowed
\* between two digits.
DigitGroup(s) ==
    /\ Len(s) > 0
    /\ \A i \in 1..Len(s) :
          \/ IsDigit(s[i])
          \/ /\ s[i] = 95
             /\ i > 1 /\ i < Len(s)
             /\ IsDigit(s[i - 1]) /\ IsDigit(s[i + 1])

RECURSIVE DigitsValue(_, _)
DigitsValue(s, acc) ==
    IF s = <<>> THEN acc
    ELSE IF Head(s) = 95 THEN DigitsValue(Tail(s), acc)
    ELSE DigitsValue(Tail(s), 10 * acc + (Head(s) - 48))

Unsigned(s) ==
    IF s # <<>> /\ s[1] \in {43, 45} THEN Tail(s) ELSE s

Negative(s) == s # <<>> /\ s[1] = 45

\* int(s): ok is FALSE where Python raises ValueError.
PyInt(s) ==
    LET t == Strip(s)
        body == Unsigned(t)
    IN  IF DigitGroup(body)
        THEN [ok |-> TRUE,
              v |-> IF Negative(t) THEN 0 - DigitsValue(body, 0)
                    ELSE DigitsValue(body, 0)]
        ELSE [ok |-> FALSE, v |-> 0]

Lower(c) == IF c >= 65 /\ c <= 90 THEN c + 32 ELSE c

LowerAll(s) == [i \in 1..Len(s) |-> Lower(s[i])]

\* "inf", "infinity", "nan" in lower case.
FloatWords ==
    {<<105, 110, 102>>, <<105, 110, 102, 105, 110, 105, 116, 121>>,
     <<110, 97, 110>>}

\* The decimal literal mant [e exp]: mant is digits with at most one point
\* and at least one digit; exp is an optionally signed digit group.
FloatParts(body) ==
    LET l == LowerAll(body)
        pe == Find(l, <<101>>)
        mant == IF pe = 0 THEN body ELSE SubSeq(body, 1, pe - 1)
        ex == IF pe = 0 THEN <<>> ELSE SubSeq(body, pe + 1, Len(body))
        pp == Find(mant, <<46>>)
        ip == IF pp = 0 THEN mant ELSE SubSeq(mant, 1, pp - 1)
        fp == IF pp = 0 THEN <<>> ELSE SubSeq(mant, pp + 1, Len(mant))
    IN  [hasExp |-> pe # 0, ex |-> ex, ip |-> ip, fp |-> fp]

CountDigits(s) == Cardinality({i \in 1..Len(s) : IsDigit(s[i])})

\* float(s): ok is FALSE where Python raises ValueError; a number is
\* mant * 10^exp, negated when neg.
PyFloat(s) ==
    LET t == Strip(s)
        body == Unsigned(t)
        p == FloatParts(body)
        wellFormed ==
            /\ p.ip = <<>> \/ DigitGroup(p.ip)
            /\ p.fp = <<>> \/ DigitGroup(p.fp)
            /\ p.ip # <<>> \/ p.fp # <<>>
            /\ p.hasExp => DigitGroup(Unsigned(p.ex))
        e == IF p.hasExp
             THEN (IF Negative(p.ex) THEN 0 - DigitsValue(Unsigned(p.ex), 0)
                   ELSE DigitsValue(Unsigned(p.ex), 0))
             ELSE 0
    IN  IF LowerAll(body) \in FloatWords
        THEN [ok |-> TRUE, kind |-> IF Lower(body[1]) = 110 THEN "nan" ELSE "inf",
              neg |-> Negative(t), mant |-> 0, exp |-> 0]
        ELSE IF wellFormed
        THEN [ok |-> TRUE, kind |-> "num", neg |-> Negative(t),
              mant |-> DigitsValue(p.ip \o p.fp, 0),
              exp |-> e - CountDigits(p.fp)]
        ELSE [ok |-> FALSE, kind |-> "num", neg |-> FALSE, mant |-> 0, exp |-> 0]

\* x * 10^k for a float x; multiplying inf or nan leaves it as it is.
Scale(x, k) == [x EXCEPT !.exp = IF x.kind = "num" THEN x.exp + k ELSE 0]

IntFields ==
    {K_virtualserver_clientsonline, K_virtualserver_queryclientsonline,
     K_connection_bandwidth_sent_last_second_total,
     K_connection_bandwidth_received_last_second_total,
     K_connection_filetransfer_bandwidth_sent,
     K_connection_filetransfer_bandwidth_received}

FloatFields ==
    {K_virtualserver_total_ping,
     K_virtualserver_total_packetloss_speech,
     K_virtualserver_total_packetloss_keepalive,
     K_virtualserver_total_packetloss_control,
     K_virtualserver_total_packetloss_total}

\* Lines 301-320 run to the end without KeyError or ValueError.
ExtractOk(raw) ==
    LET line == FirstLine(raw)
    IN  /\ \A k \in IntFields : HasKey(line, k) /\ PyInt(Lookup(line, k)).ok
        /\ \A k \in FloatFields : HasKey(line, k) /\ PyFloat(Lookup(line, k)).ok

\* The dict `data` as it would be with the operands of line 305 exchanged:
\* connected_users = connected_queries - connected_total.
Extract_users_swapped(raw) ==
    LET line == FirstLine(raw)
        I(k) == PyInt(Lookup(line, k)).v
        F(k) == PyFloat(Lookup(line, k))
    IN  [connected_total |-> I(K_virtualserver_clientsonline),
         connected_queries |-> I(K_virtualserver_queryclientsonline),
         connected_users |-> I(K_virtualserver_queryclientsonline)
                               - I(K_virtualserver_clientsonline),
         ping |-> Scale(F(K_virtualserver_total_ping), 3),
         bandwidth_total_sent |->
             I(K_connection_bandwidth_sent_last_second_total),
         bandwidth_total_received |->
             I(K_connection_bandwidth_received_last_second_total),
         bandwidth_filetransfer_sent |->
             I(K_connection_filetransfer_bandwidth_sent),
         bandwidth_filetransfer_received |->
             I(K_connection_filetransfer_bandwidth_received),
         packetloss_speech |->
             Scale(F(K_virtualserver_total_packetloss_speech), 5),
         packetloss_keepalive |->
             Scale(F(K_virtualserver_total_packetloss_keepalive), 5),
         packetloss_control |->
             Scale(F(K_virtualserver_total_packetloss_control), 5),
         packetloss_total |->
             Scale(F(K_virtualserver_total_packetloss_total), 5)]

\* The dict `data` that lines 303-320 fill.
Extract(raw) ==
    LET line == FirstLine(raw)
        I(k) == PyInt(Lookup(line, k)).v
        F(k) == PyFloat(Lookup(line, k))
    IN  [connected_total |-> I(K_virtualserver_clientsonline),
         connected_queries |-> I(K_virtualserver_queryclientsonline),
         connected_users |-> I(K_virtualserver_clientsonline)
                               - I(K_virtualserver_queryclientsonline),
         ping |-> Scale(F(K_virtualserver_total_ping), 3),
         bandwidth_total_sent |->
             I(K_connection_bandwidth_sent_last_second_total),
         bandwidth_total_received |->
             I(K_connection_bandwidth_received_last_second_total),
         bandwidth_filetransfer_sent |->
             I(K_connection_filetransfer_bandwidth_sent),
         bandwidth_filetransfer_received |->
             I(K_connection_filetransfer_bandwidth_received),
         packetloss_speech |->
             Scale(F(K_virtualserver_total_packetloss_speech), 5),
         packetloss_keepalive |->
             Scale(F(K_virtualserver_total_packetloss_keepalive), 5),
         packetloss_control |->
             Scale(F(K_virtualserver_total_packetloss_control), 5),
         packetloss_total |->
             Scale(F(K_virtualserver_total_packetloss_total), 5)]

\* The record before any field is filled (data = {} at line 292).
NoMetrics ==
    LET z == [ok |-> FALSE, kind |-> "num", neg |-> FALSE, mant |-> 0, exp |-> 0]
    IN  [connected_total |-> 0, connected_queries |-> 0, connected_users |-> 0,
         ping |-> z, bandwidth_total_sent |-> 0, bandwidth_total_received |-> 0,
         bandwidth_filetransfer_sent |-> 0,
         bandwidth_filetransfer_received |-> 0,
         packetloss_speech |-> z, packetloss_keepalive |-> z,
         packetloss_control |-> z, packetloss_total |-> z]

----------------------------------------------------------------------------
(* State.                                                                  *)

VARIABLES
    phase,       \* host: "init" before check(), then "running" or "disabled"
    user,        \* self.user
    passwd,      \* self.passwd
    channel_id,  \* self.channel_id
    sock,        \* self._sock: "None" or "open"
    health,      \* the open socket: "good", or "dead" (every call on it
                 \* raises and what was pending is lost)
    faults,      \* transport faults the environment may still inject
    wire,        \* bytes the server has written and recv has not returned
    peer,        \* "up", or "closed" once the server closed the connection
    stack,       \* the call stack of Service methods, innermost last
    exc,         \* the exception in flight, "none" when there is none
    retval,      \* the value the last completed call returned
    io,          \* transport events of the current host call, in order
    ev,          \* what the last step did
    calls        \* host calls into the collector so far

vars ==
    <<phase, user, passwd, channel_id, sock, health, faults, wire, peer,
      stack, exc, retval, io, ev, calls>>

\* Python values that cross a call boundary.
NoneVal == [k |-> "none", b |-> FALSE, t |-> <<>>, m |-> NoMetrics]
BoolVal(b) == [k |-> "bool", b |-> b, t |-> <<>>, m |-> NoMetrics]
TextVal(t) == [k |-> "text", b |-> FALSE, t |-> t, m |-> NoMetrics]
DictVal(m) == [k |-> "dict", b |-> FALSE, t |-> <<>>, m |-> m]

\* A command: its name and, for clientmove, the clid it carries.
Cmd(name, arg) == [name |-> name, arg |-> arg]

NoCmd == Cmd("none", <<>>)

\* A frame: the method, the line it stands at, and its locals: `data` of
\* _receive (raw of _get_data), `req` the request of _send.  `how` records
\* the branch the frame has taken: why the _receive loop was left
\* ("timeout", "select_error"), why the write of _send raised ("no_socket",
\* "write_failed"), and for _connect whether a handshake call has failed
\* ("step_failed").
Frame(fn, pc, req) ==
    [fn |-> fn, pc |-> pc, data |-> <<>>, req |-> req, how |-> "none"]

\* What a step did: `how` is the path taken (or the exception, or the
\* command), `val` the value returned, `data` and `note` the data and how of
\* the frame that returned or was left.
Event(kind, fn, how, val, data) ==
    [kind |-> kind, fn |-> fn, how |-> how, val |-> val, data |-> data,
     note |-> "none"]

Top == stack[Len(stack)]

Idle == stack = <<>> /\ exc = "none"

At(fn, pc) ==
    /\ stack # <<>>
    /\ exc = "none"
    /\ Top.fn = fn
    /\ Top.pc = pc

WithTop(f) == [stack EXCEPT ![Len(stack)] = f]

\* The frames of the given method that are on the stack.
Frames(fn) == {i \in 1..Len(stack) : stack[i].fn = fn}

----------------------------------------------------------------------------
(* The environment: the TeamSpeak server and the transport.                *)

Digit2 == <<50>>
Digit1 == <<49>>

\* A token "key=value".
Token(key, value) == key \o <<61>> \o value

\* The eleven required fields, joined by single spaces; `clients` is the
\* value of virtualserver_clientsonline.
StatusLine(clients) ==
    Token(K_virtualserver_clientsonline, clients) \o <<32>>
    \o Token(K_virtualserver_queryclientsonline, Digit1) \o <<32>>
    \o Token(K_virtualserver_total_ping, <<48, 46, 48, 53>>) \o <<32>>
    \o Token(K_connection_bandwidth_sent_last_second_total, Digit2) \o <<32>>
    \o Token(K_connection_bandwidth_received_last_second_total, Digit1)
    \o <<32>>
    \o Token(K_connection_filetransfer_bandwidth_sent, Digit1) \o <<32>>
    \o Token(K_connection_filetransfer_bandwidth_received, Digit1) \o <<32>>
    \o Token(K_virtualserver_total_packetloss_speech, Digit1) \o <<32>>
    \o Token(K_virtualserver_total_packetloss_keepalive, Digit1) \o <<32>>
    \o Token(K_virtualserver_total_packetloss_control, Digit1) \o <<32>>
    \o Token(K_virtualserver_total_packetloss_total, Digit1)

\* What the server does on a command: the bytes it answers with and
\* whether it closes the connection after them.
Reply(bytes, close) == [bytes |-> bytes, close |-> close]

Silent == Reply(<<>>, FALSE)

Hangup == Reply(<<>>, TRUE)

\* The whoami data line up to and including "client_id=": what has arrived
\* of it when the connection is lost at that point.
WhoamiCut ==
    SubSeq(WhoamiLine, 1, Find(WhoamiLine, ClientIdKey) + Len(ClientIdKey) - 1)

ServerReplies(name) ==
    {Silent, Hangup} \cup
    (CASE name = "login" ->
            {Reply(ReplyOk, FALSE), Reply(ReplyBadLogin, FALSE)}
       [] name = "use" ->
            {Reply(ReplyOk, FALSE), Reply(SubSeq(ReplyOk, 1, 5), TRUE)}
       [] name = "clientupdate" ->
            {Reply(ReplyOk, FALSE)}
       [] name = "whoami" ->
            {Reply(WhoamiLine \o ReplyOk, FALSE),
             Reply(WhoamiNoId \o ReplyOk, FALSE),
             Reply(WhoamiCut, TRUE)}
       [] name = "clientmove" ->
            {Reply(ReplyOk, FALSE), Reply(ReplyBadChannel, FALSE)}
       [] name = "serverinfo" ->
            {Reply(StatusLine(Digit2) \o LineSep \o ReplyOk, FALSE),
             Reply(Token(K_virtualserver_clientsonline, <<120>>)
                     \o LineSep \o ReplyOk, FALSE),
             Reply(NameToken \o LineSep \o ReplyOk, FALSE)}
       [] name = "quit" ->
            {Reply(ReplyOk, TRUE)}
       [] OTHER -> {})

\* The sizes of the reads recv may return with n bytes pending.
ReadSizes(n) ==
    (IF n <= MaxFrag THEN 1..Min(MaxSeg, n) ELSE {}) \cup {Min(n, BUFSIZE)}

----------------------------------------------------------------------------
(* Calls, returns and exceptions.                                          *)

\* The top frame calls fn and will resume at `cont`.  At the recursion
\* limit the call raises RecursionError in the caller instead.
CallFrom(f, fn, entry, req, cont) ==
    IF Len(stack) >= MaxDepth
    THEN /\ exc' = "RecursionError"
         /\ stack' = WithTop([f EXCEPT !.pc = cont])
         /\ ev' = Event("raise", f.fn, "RecursionError", NoneVal, <<>>)
    ELSE /\ exc' = exc
         /\ stack' = Append(WithTop([f EXCEPT !.pc = cont]),
                            Frame(fn, entry, req))
         /\ ev' = Event("call", fn, req.name, NoneVal, <<>>)

Call(fn, entry, req, cont) == CallFrom(Top, fn, entry, req, cont)

\* The top frame returns v; `how` says by which path.  A return to the
\* host is a "host_return".
ReturnFrom(f, v, how) ==
    /\ stack' = SubSeq(stack, 1, Len(stack) - 1)
    /\ retval' = IF Len(stack) = 1 THEN NoneVal ELSE v
    /\ ev' = [Event(IF Len(stack) = 1 THEN "host_return" ELSE "return",
                    f.fn, how, v, f.data) EXCEPT !.note = f.how]

Return(v, how) == ReturnFrom(Top, v, how)

\* The top frame moves to line pc.
Goto(pc, kind, how) ==
    /\ stack' = WithTop([Top EXCEPT !.pc = pc])
    /\ ev' = Event(kind, Top.fn, how, NoneVal, <<>>)

\* The top frame moves to line pc along the branch `how`.
Branch(pc, kind, how) ==
    /\ stack' = WithTop([Top EXCEPT !.pc = pc, !.how = how])
    /\ ev' = Event(kind, Top.fn, how, NoneVal, <<>>)

\* The top frame raises e at the line it stands at.
Raise(e) ==
    /\ exc' = e
    /\ ev' = Event("raise", Top.fn, e, NoneVal, <<>>)

\* except (ValueError, AttributeError) at line 296; UnicodeDecodeError is
\* a ValueError.
CaughtAt296(e) == e \in {"ValueError", "AttributeError", "UnicodeDecodeError"}

\* The lines of _connect inside the try of line 199, as the frame stands
\* at them while a call made from them is running.
ConnectTry ==
    {"L200", "L201", "L202", "L203", "L204", "L207", "L208", "L210",
     "L210r", "L212", "L213"}

\* The handler that catches e in frame f: the line it continues at, "none"
\* when the exception leaves the frame.
Handler(f, e) ==
    IF f.fn = "_connect" /\ f.pc \in ConnectTry THEN "L215"
    ELSE IF f.fn = "_get_data" /\ f.pc = "L295r" /\ CaughtAt296(e) THEN "L297"
    ELSE "none"

\* An exception in flight reaches a frame that handles it.
Catch ==
    /\ stack # <<>>
    /\ exc # "none"
    /\ Handler(Top, exc) # "none"
    /\ exc' = "none"
    /\ stack' = WithTop([Top EXCEPT !.pc = Handler(Top, exc)])
    /\ ev' = Event("catch", Top.fn, exc, NoneVal, <<>>)
    /\ UNCHANGED <<phase, user, passwd, channel_id, sock, health, faults,
                   wire, peer, retval, io, calls>>

\* An exception in flight leaves a frame that does not handle it; leaving
\* the outermost frame it reaches the host.
Unwind ==
    /\ stack # <<>>
    /\ exc # "none"
    /\ Handler(Top, exc) = "none"
    /\ stack' = SubSeq(stack, 1, Len(stack) - 1)
    /\ exc' = IF Len(stack) = 1 THEN "none" ELSE exc
    /\ ev' = [Event(IF Len(stack) = 1 THEN "host_raise" ELSE "unwind",
                    Top.fn, exc, NoneVal, Top.data) EXCEPT !.note = Top.how]
    /\ retval' = NoneVal
    /\ UNCHANGED <<phase, user, passwd, channel_id, sock, health, faults,
                   wire, peer, io, calls>>

----------------------------------------------------------------------------
(* The host.                                                               *)

Absent == "<absent>"

\* The configurations check() is run on: each key absent, empty or set;
\* `local` says whether the host is local and a ts3server process exists.
Configs ==
    [user : {Absent, "", "serveradmin"},
     pass : {Absent, "", "secret"},
     channel_id : {Absent, "7"},
     local : {"remote", "found", "missing"}]

\* check() as it would be if only a missing key, and not an empty value,
\* disabled the collector.
CheckResult_missing_only(cfg) ==
    IF cfg.user = Absent THEN FALSE
    ELSE IF cfg.pass = Absent THEN FALSE
    ELSE cfg.local # "missing"

\* Service.check, lines 121-195: its return value.
CheckResult(cfg) ==
    IF cfg.user = Absent \/ cfg.user = "" THEN FALSE
    ELSE IF cfg.pass = Absent \/ cfg.pass = "" THEN FALSE
    ELSE cfg.local # "missing"

check ==
    /\ Idle
    /\ phase = "init"
    /\ \E cfg \in Configs :
        /\ user' = IF cfg.user = Absent THEN user ELSE cfg.user
        /\ passwd' = IF cfg.user \in {Absent, ""} \/ cfg.pass = Absent
                     THEN passwd ELSE cfg.pass
        /\ channel_id' = IF cfg.user \in {Absent, ""}
                            \/ cfg.pass \in {Absent, ""}
                            \/ cfg.channel_id = Absent
                         THEN channel_id ELSE cfg.channel_id
        /\ phase' = IF CheckResult(cfg) THEN "running" ELSE "disabled"
        /\ ev' = Event("check", "check", cfg.local,
                       BoolVal(CheckResult(cfg)), <<>>)
    /\ io' = <<>>
    /\ UNCHANGED <<sock, health, faults, wire, peer, stack, exc, retval,
                   calls>>

\* The host runs one collector tick: it calls _get_data().
CallGetData ==
    /\ Idle
    /\ phase = "running"
    /\ calls < MaxCalls
    /\ calls' = calls + 1
    /\ stack' = <<Frame("_get_data", "L295", NoCmd)>>
    /\ io' = <<>>
    /\ ev' = Event("host_call", "_get_data", "none", NoneVal, <<>>)
    /\ UNCHANGED <<phase, user, passwd, channel_id, sock, health, faults,
                   wire, peer, exc, retval>>

\* The host calls _disconnect().
CallDisconnect ==
    /\ Idle
    /\ phase # "disabled"
    /\ calls < MaxCalls
    /\ calls' = calls + 1
    /\ stack' = <<Frame("_disconnect", "L224", NoCmd)>>
    /\ io' = <<>>
    /\ ev' = Event("host_call", "_disconnect", "none", NoneVal, <<>>)
    /\ UNCHANGED <<phase, user, passwd, channel_id, sock, health, faults,
                   wire, peer, exc, retval>>

----------------------------------------------------------------------------
(* Service._get_data, lines 287-331.                                       *)

\* Line 295: raw = self._get_raw_data().
GetData_L295 ==
    /\ At("_get_data", "L295")
    /\ Call("_get_raw_data", "check", NoCmd, "L295r")
    /\ UNCHANGED <<phase, user, passwd, channel_id, sock, health, faults,
                   wire, peer, retval, io, calls>>

\* Lines 296-298: no data received.
GetData_L297 ==
    /\ At("_get_data", "L297")
    /\ Return(NoneVal, "nodata")
    /\ UNCHANGED <<phase, user, passwd, channel_id, sock, health, faults,
                   wire, peer, exc, io, calls>>

\* Lines 300-325 and 331: parse raw and return the record; a raw of None
\* (AttributeError), a missing field (KeyError) or a non-numeric value
\* (ValueError) leads to the handler of line 326.
GetData_L301 ==
    /\ At("_get_data", "L295r")
    /\ IF retval.k = "text" /\ ExtractOk(retval.t)
       THEN Return(DictVal(Extract(retval.t)), "record")
       ELSE /\ stack' = WithTop([Top EXCEPT !.pc = "L327",
                                            !.data = retval.t,
                                            !.how = retval.k])
            /\ ev' = Event("catch", "_get_data", "Exception", NoneVal, <<>>)
            /\ retval' = retval
    /\ UNCHANGED <<phase, user, passwd, channel_id, sock, health, faults,
                   wire, peer, exc, io, calls>>

\* Lines 326-329 as they would be with a teardown in the handler:
\* self._disconnect() before return None.
GetData_L327_teardown ==
    /\ \/ /\ At("_get_data", "L327")
          /\ Call("_disconnect", "L224", NoCmd, "L329")
          /\ retval' = retval
       \/ /\ At("_get_data", "L329")
          /\ Return(NoneVal, "malformed")
          /\ exc' = exc
    /\ UNCHANGED <<phase, user, passwd, channel_id, sock, health, faults,
                   wire, peer, io, calls>>

\* Lines 326-329 as they would be if the handler returned `data`, the
\* dict as far as it was filled, instead of None.
GetData_L327_partial ==
    /\ At("_get_data", "L327")
    /\ Return(DictVal(NoMetrics), "malformed")
    /\ UNCHANGED <<phase, user, passwd, channel_id, sock, health, faults,
                   wire, peer, exc, io, calls>>

\* Lines 326-329: log the error and return None.
GetData_L327 ==
    /\ At("_get_data", "L327")
    /\ Return(NoneVal, "malformed")
    /\ UNCHANGED <<phase, user, passwd, channel_id, sock, health, faults,
                   wire, peer, exc, io, calls>>

----------------------------------------------------------------------------
(* SocketService._get_raw_data, called at line 295: connect if there is no *)
(* socket, send self.request, receive; _keep_alive is True (line 114), so  *)
(* it does not disconnect afterwards.                                      *)

ServerInfo == Cmd("serverinfo", <<>>)

\* if self._sock is None: self._connect(); otherwise go on to send.
Raw_check ==
    /\ At("_get_raw_data", "check")
    /\ IF sock = "None"
       THEN Call("_connect", "L198", NoCmd, "connected")
       ELSE Call("_send", "L237", ServerInfo, "sent")
    /\ UNCHANGED <<phase, user, passwd, channel_id, sock, health, faults,
                   wire, peer, retval, io, calls>>

\* if self._sock is None: return None; then self._send(request).
Raw_connected ==
    /\ At("_get_raw_data", "connected")
    /\ IF sock = "None"
       THEN Return(NoneVal, "noconnection") /\ exc' = exc
       ELSE Call("_send", "L237", ServerInfo, "sent") /\ retval' = retval
    /\ UNCHANGED <<phase, user, passwd, channel_id, sock, health, faults,
                   wire, peer, io, calls>>

\* if not self._send(request): return None; data = self._receive(raw).
Raw_sent ==
    /\ At("_get_raw_data", "sent")
    /\ IF ~retval.b
       THEN Return(NoneVal, "notsent") /\ exc' = exc
       ELSE Call("_receive", "L260", NoCmd, "received") /\ retval' = retval
    /\ UNCHANGED <<phase, user, passwd, channel_id, sock, health, faults,
                   wire, peer, io, calls>>

\* return data.
Raw_received ==
    /\ At("_get_raw_data", "received")
    /\ Return(retval, "data")
    /\ UNCHANGED <<phase, user, passwd, channel_id, sock, health, faults,
                   wire, peer, exc, io, calls>>

----------------------------------------------------------------------------
(* Service._connect, lines 197-221.                                        *)

\* Line 198, super()._connect(): the base class opens a socket, or leaves
\* self._sock None when the connection cannot be made.
Connect_L198 ==
    /\ At("_connect", "L198")
    /\ \E opened \in BOOLEAN :
        /\ sock' = IF opened THEN "open" ELSE "None"
        /\ io' = Append(io, Cmd(IF opened THEN "open" ELSE "open_failed", <<>>))
    /\ health' = "good"
    /\ wire' = <<>>
    /\ peer' = "up"
    /\ Goto("L200", "step", "open")
    /\ UNCHANGED <<phase, user, passwd, channel_id, faults, exc, retval,
                   calls>>

\* The commands as they would be with lines 200 and 202 exchanged: use
\* before login.
HandshakeCmd_use_first(pc) ==
    CASE pc = "L200" -> Cmd("use", <<>>)
      [] pc = "L202" -> Cmd("login", <<>>)
      [] pc = "L204" -> Cmd("clientupdate", <<>>)

\* The command each sending line of the handshake writes, and the line
\* that follows it.
HandshakeCmd(pc) ==
    CASE pc = "L200" -> Cmd("login", <<>>)
      [] pc = "L202" -> Cmd("use", <<>>)
      [] pc = "L204" -> Cmd("clientupdate", <<>>)

AfterSend(pc) ==
    CASE pc = "L200" -> "L201"
      [] pc = "L202" -> "L203"
      [] pc = "L204" -> "L207"

AfterReceive(pc) ==
    CASE pc = "L201" -> "L202"
      [] pc = "L203" -> "L204"
      [] pc = "L207" -> "L208"
      [] pc = "L210" -> "L210r"
      [] pc = "L212" -> "L213"

\* The ways a _send or _receive ends that are a failure of the step.
FailedHow == {"failed", "peer_closed", "torn_down"}

\* The _connect frame, remembering whether the call that has just returned
\* to it failed (bookkeeping: _connect itself does not look, lines 200-212
\* use no return value but that of line 210).
Noted ==
    IF Top.how = "none" /\ ev.kind = "return" /\ ev.how \in FailedHow
    THEN [Top EXCEPT !.how = "step_failed"]
    ELSE Top

\* Lines 200, 202, 204: self._send(<command>); the result is not used.
Connect_send ==
    /\ \E pc \in {"L200", "L202", "L204"} :
        /\ At("_connect", pc)
        /\ CallFrom(Noted, "_send", "L237", HandshakeCmd(pc), AfterSend(pc))
    /\ UNCHANGED <<phase, user, passwd, channel_id, sock, health, faults,
                   wire, peer, retval, io, calls>>

\* Lines 201, 203, 207, 210, 212: self._receive().
Connect_receive ==
    /\ \E pc \in {"L201", "L203", "L207", "L210", "L212"} :
        /\ At("_connect", pc)
        /\ CallFrom(Noted, "_receive", "L260", NoCmd, AfterReceive(pc))
    /\ UNCHANGED <<phase, user, passwd, channel_id, sock, health, faults,
                   wire, peer, retval, io, calls>>

\* if self.channel_id: (None is false, a configured id is true).
Truthy(v) == v # "None" /\ v # ""

\* Lines 208-209: with a channel id, self._send("whoami\n"); without one
\* the try block is over and _connect returns.
Connect_L208 ==
    /\ At("_connect", "L208")
    /\ IF Truthy(channel_id)
       THEN CallFrom(Noted, "_send", "L237", Cmd("whoami", <<>>), "L210")
            /\ retval' = retval
       ELSE ReturnFrom(Noted, NoneVal, "ready") /\ exc' = exc
    /\ UNCHANGED <<phase, user, passwd, channel_id, sock, health, faults,
                   wire, peer, io, calls>>

\* re.compile("client_id=(\d*)").findall(text): the digits (possibly none)
\* that follow each occurrence of "client_id=", scanning left to right
\* without overlap; here the first of them.
HasClientId(text) == Find(text, ClientIdKey) # 0

FirstClientId(text) ==
    LET s == Find(text, ClientIdKey) + Len(ClientIdKey)
        stop == {i \in s..(Len(text) + 1) :
                    i = Len(text) + 1 \/ ~IsDigit(text[i])}
        e == CHOOSE i \in stop : \A j \in stop : i <= j
    IN  SubSeq(text, s, e - 1)

\* Lines 210-211: clid = findall(...)[0], IndexError when the response has
\* no "client_id="; then self._send("clientmove clid=.. cid=..").
Connect_L210 ==
    /\ At("_connect", "L210r")
    /\ IF HasClientId(retval.t)
       THEN CallFrom(Noted, "_send", "L237",
                     Cmd("clientmove", FirstClientId(retval.t)), "L212")
       ELSE Raise("IndexError") /\ stack' = WithTop(Noted)
    /\ UNCHANGED <<phase, user, passwd, channel_id, sock, health, faults,
                   wire, peer, retval, io, calls>>

\* The end of the try block as it would be if a response other than
\* msg=ok to clientmove were raised as a failure.
Connect_L213_strict ==
    /\ At("_connect", "L213")
    /\ IF retval.k = "text" /\ ~EndsWith(retval.t, TermOk)
       THEN /\ Raise("ValueError")
            /\ stack' = WithTop(Noted)
            /\ retval' = retval
       ELSE ReturnFrom(Noted, NoneVal, "ready") /\ exc' = exc
    /\ UNCHANGED <<phase, user, passwd, channel_id, sock, health, faults,
                   wire, peer, io, calls>>

\* The try block ended without an exception: _connect returns.
Connect_L213 ==
    /\ At("_connect", "L213")
    /\ ReturnFrom(Noted, NoneVal, "ready")
    /\ UNCHANGED <<phase, user, passwd, channel_id, sock, health, faults,
                   wire, peer, exc, io, calls>>

\* Line 215, in the handler: self._disconnect().
Connect_L215 ==
    /\ At("_connect", "L215")
    /\ Call("_disconnect", "L224", NoCmd, "L216")
    /\ UNCHANGED <<phase, user, passwd, channel_id, sock, health, faults,
                   wire, peer, retval, io, calls>>

\* Lines 216-221 as they would be if the handler tried the connection
\* once more before giving up.
Connect_L216_retry ==
    /\ At("_connect", "L216")
    /\ IF Cardinality({i \in 1..Len(io) :
                          io[i].name \in {"open", "open_failed"}}) < 2
       THEN Goto("L198", "step", "retry") /\ retval' = retval
       ELSE Return(NoneVal, "failed")
    /\ UNCHANGED <<phase, user, passwd, channel_id, sock, health, faults,
                   wire, peer, exc, io, calls>>

\* Lines 216-221: log the error; _connect returns.
Connect_L216 ==
    /\ At("_connect", "L216")
    /\ Return(NoneVal, "failed")
    /\ UNCHANGED <<phase, user, passwd, channel_id, sock, health, faults,
                   wire, peer, exc, io, calls>>

----------------------------------------------------------------------------
(* Service._disconnect, lines 223-226.                                     *)

\* Line 224: self._send("quit\n".encode()).
Disconnect_L224 ==
    /\ At("_disconnect", "L224")
    /\ Call("_send", "L237", Cmd("quit", <<>>), "L225")
    /\ UNCHANGED <<phase, user, passwd, channel_id, sock, health, faults,
                   wire, peer, retval, io, calls>>

\* Line 225: self._receive().
Disconnect_L225 ==
    /\ At("_disconnect", "L225")
    /\ Call("_receive", "L260", NoCmd, "L226")
    /\ UNCHANGED <<phase, user, passwd, channel_id, sock, health, faults,
                   wire, peer, retval, io, calls>>

\* Line 226, super()._disconnect(): the base class closes the socket, if
\* there is one, ignoring errors, and sets self._sock to None.
Disconnect_L226 ==
    /\ At("_disconnect", "L226")
    /\ sock' = "None"
    /\ health' = "good"
    /\ wire' = <<>>
    /\ peer' = "up"
    /\ io' = IF sock = "open" THEN Append(io, Cmd("close", <<>>)) ELSE io
    /\ Return(NoneVal, "closed")
    /\ UNCHANGED <<phase, user, passwd, channel_id, faults, exc, calls>>

----------------------------------------------------------------------------
(* Service._send, lines 228-249.  The guard of line 234 compares           *)
(* self.request, which is "serverinfo\n" (line 115), with the empty        *)
(* request and is always true.                                             *)

\* Line 237, self._sock.send(...), inside the try of line 235.  Without a
\* socket the attribute access raises; on a dead socket the call raises;
\* on a good one the environment may inject a fault (one that passes, or
\* one that leaves the socket dead; a write to a connection the peer has
\* closed may fail without one); otherwise the command is written and the
\* server chooses its reply.  Every exception is caught at line 238.  (A
\* fault that passes is also what a str request is under Python 3, where
\* socket.send raises TypeError; the source sends quit as bytes.)
Send_L237 ==
    /\ At("_send", "L237")
    /\ \/ /\ sock = "None" \/ health = "dead"
          /\ Branch("L239", "catch",
                    IF sock = "None" THEN "no_socket" ELSE "write_failed")
          /\ UNCHANGED <<health, faults, wire, peer, io>>
       \/ /\ sock = "open" /\ health = "good"
          /\ faults > 0 \/ peer = "closed"
          /\ \E dies \in BOOLEAN :
                /\ peer = "closed" => dies
                /\ health' = IF dies THEN "dead" ELSE "good"
                /\ wire' = IF dies THEN <<>> ELSE wire
          /\ faults' = IF peer = "closed" THEN faults ELSE faults - 1
          /\ Branch("L239", "catch", "write_failed")
          /\ UNCHANGED <<peer, io>>
       \/ /\ sock = "open" /\ health = "good"
          /\ \E r \in (IF peer = "up" THEN ServerReplies(Top.req.name)
                       ELSE {Silent}) :
                /\ wire' = wire \o r.bytes
                /\ peer' = IF r.close THEN "closed" ELSE peer
          /\ io' = Append(io, Top.req)
          /\ Goto("L249", "write", Top.req.name)
          /\ UNCHANGED <<health, faults>>
    /\ UNCHANGED <<phase, user, passwd, channel_id, sock, exc, retval, calls>>

\* Line 239, in the handler: self._disconnect().
Send_L239 ==
    /\ At("_send", "L239")
    /\ Call("_disconnect", "L224", NoCmd, "L247")
    /\ UNCHANGED <<phase, user, passwd, channel_id, sock, health, faults,
                   wire, peer, retval, io, calls>>

\* Lines 240-247: log the error and return False.
Send_L247 ==
    /\ At("_send", "L247")
    /\ Return(BoolVal(FALSE), "failed")
    /\ UNCHANGED <<phase, user, passwd, channel_id, sock, health, faults,
                   wire, peer, exc, io, calls>>

\* Line 249: return True.
Send_L249 ==
    /\ At("_send", "L249")
    /\ Return(BoolVal(TRUE), "sent")
    /\ UNCHANGED <<phase, user, passwd, channel_id, sock, health, faults,
                   wire, peer, exc, io, calls>>

----------------------------------------------------------------------------
(* Service._receive, lines 251-285.                                        *)

\* Line 260, select.select([self._sock], [], [], 5), inside the try of
\* line 259: it raises without a socket, on a dead socket, or when the
\* socket dies now (handler, line 262); it reports the socket readable when
\* bytes are pending or the peer has closed (line 268); otherwise the five
\* seconds pass with nothing to read (line 279).
Receive_L260 ==
    /\ At("_receive", "L260")
    /\ \/ /\ sock = "None" \/ health = "dead"
          /\ Branch("L264", "catch", "select_error")
          /\ UNCHANGED <<health, faults, wire>>
       \/ /\ sock = "open" /\ health = "good"
          /\ faults > 0
          /\ health' = "dead"
          /\ wire' = <<>>
          /\ faults' = faults - 1
          /\ Branch("L264", "catch", "select_error")
       \/ /\ sock = "open" /\ health = "good"
          /\ IF wire # <<>> \/ peer = "closed"
             THEN Goto("L269", "select", "readable")
             ELSE Branch("L281", "select", "timeout")
          /\ UNCHANGED <<health, faults, wire>>
    /\ UNCHANGED <<phase, user, passwd, channel_id, sock, peer, exc,
                   retval, io, calls>>

\* Lines 263-266, in the handler: self._disconnect(), then break.
Receive_L264 ==
    /\ At("_receive", "L264")
    /\ Call("_disconnect", "L224", NoCmd, "L285")
    /\ UNCHANGED <<phase, user, passwd, channel_id, sock, health, faults,
                   wire, peer, retval, io, calls>>

\* Lines 280-283: the socket timed out; self._disconnect(), then break.
Receive_L281 ==
    /\ At("_receive", "L281")
    /\ Call("_disconnect", "L224", NoCmd, "L285")
    /\ UNCHANGED <<phase, user, passwd, channel_id, sock, health, faults,
                   wire, peer, retval, io, calls>>

\* data += buf.decode("utf-8") (line 275).
Accumulate(data, buf) == data \o buf

\* Lines 269-278: buf = self._sock.recv(4096), outside any try.  The call
\* raises when the socket dies now.  With nothing pending and the peer
\* closed it returns no bytes and the loop breaks (line 271).  Otherwise it
\* returns part or all of the pending bytes; decoding them raises
\* UnicodeDecodeError when they are not well-formed on their own; the loop
\* breaks when the accumulated text ends with a terminator and goes back
\* to select otherwise.
Receive_L269 ==
    /\ At("_receive", "L269")
    /\ \/ /\ faults > 0
          /\ health' = "dead"
          /\ wire' = <<>>
          /\ faults' = faults - 1
          /\ Raise("OSError")
          /\ UNCHANGED <<stack, retval>>
       \/ /\ wire = <<>>
          /\ Return(TextVal(Top.data), "peer_closed")
          /\ UNCHANGED <<health, faults, wire, exc>>
       \/ /\ wire # <<>>
          /\ \E n \in ReadSizes(Len(wire)) :
                LET buf == SubSeq(wire, 1, n)
                    data == Accumulate(Top.data, buf)
                IN  /\ wire' = SubSeq(wire, n + 1, Len(wire))
                    /\ IF ~Utf8Valid(buf)
                       THEN Raise("UnicodeDecodeError")
                            /\ UNCHANGED <<stack, retval>>
                       ELSE IF CheckRawData(data)
                       THEN Return(TextVal(data), "terminator") /\ exc' = exc
                       ELSE /\ stack' = WithTop([Top EXCEPT !.pc = "L260",
                                                            !.data = data])
                            /\ ev' = Event("recv", "_receive", "more",
                                           NoneVal, <<>>)
                            /\ UNCHANGED <<exc, retval>>
          /\ UNCHANGED <<health, faults>>
    /\ UNCHANGED <<phase, user, passwd, channel_id, sock, peer, io, calls>>

\* Line 285, after a break out of the handler or the timeout branch:
\* return data.
Receive_L285 ==
    /\ At("_receive", "L285")
    /\ Return(TextVal(Top.data), "torn_down")
    /\ UNCHANGED <<phase, user, passwd, channel_id, sock, health, faults,
                   wire, peer, exc, io, calls>>

----------------------------------------------------------------------------
(* The collector.                                                          *)

\* The state after Service.__init__ (lines 100-119): no socket, empty
\* credentials, no channel id.
Init ==
    /\ phase = "init"
    /\ user = ""
    /\ passwd = ""
    /\ channel_id = "None"
    /\ sock = "None"
    /\ health = "good"
    /\ faults = MaxFaults
    /\ wire = <<>>
    /\ peer = "up"
    /\ stack = <<>>
    /\ exc = "none"
    /\ retval = NoneVal
    /\ io = <<>>
    /\ ev = Event("init", "__init__", "none", NoneVal, <<>>)
    /\ calls = 0

Next ==
    \/ check
    \/ CallGetData
    \/ CallDisconnect
    \/ Catch
    \/ Unwind
    \/ GetData_L295
    \/ GetData_L297
    \/ GetData_L301
    \/ GetData_L327
    \/ Raw_check
    \/ Raw_connected
    \/ Raw_sent
    \/ Raw_received
    \/ Connect_L198
    \/ Connect_send
    \/ Connect_receive
    \/ Connect_L208
    \/ Connect_L210
    \/ Connect_L213
    \/ Connect_L215
    \/ Connect_L216
    \/ Disconnect_L224
    \/ Disconnect_L225
    \/ Disconnect_L226
    \/ Send_L237
    \/ Send_L239
    \/ Send_L247
    \/ Send_L249
    \/ Receive_L260
    \/ Receive_L264
    \/ Receive_L281
    \/ Receive_L269
    \/ Receive_L285

Spec == Init /\ [][Next]_vars

----------------------------------------------------------------------------
(* The framing layer on its own: one _receive on a healthy connection on   *)
(* which the server has written one terminator-delimited response.         *)

\* What precedes the terminator in the responses fed to _receive: nothing,
\* ASCII text, text with the 2-byte character a-umlaut, and the data line
\* "virtualserver_name=Bär" with the start of a status line.
FramingBodies ==
    {<<>>, <<97>>, <<195, 164>>, <<97, 195, 164, 32>>,
     NameToken \o LineSep \o SubSeq(ReplyOk, 1, 11)}

\* The responses: a body and one of the two terminators; no proper prefix
\* of a response ends with a terminator.
FramingResponses ==
    {b \o t : b \in FramingBodies, t \in {TermOk, TermInvalidChannel}}

FramingInit ==
    /\ phase = "running"
    /\ user = "serveradmin"
    /\ passwd = "secret"
    /\ channel_id = "None"
    /\ sock = "open"
    /\ health = "good"
    /\ faults = 0
    /\ wire \in FramingResponses
    /\ peer = "up"
    /\ stack = <<Frame("_receive", "L260", NoCmd)>>
    /\ exc = "none"
    /\ retval = NoneVal
    /\ io = <<Cmd("reply", wire)>>
    /\ ev = Event("host_call", "_receive", "none", NoneVal, <<>>)
    /\ calls = MaxCalls

FramingNext ==
    \/ Receive_L260
    \/ Receive_L269
    \/ Unwind

SpecFraming == FramingInit /\ [][FramingNext]_vars


----------------------------------------------------------------------------
(* The metrics extractor on its own: _get_data from the point where        *)
(* self._get_raw_data() has returned (line 295), on drawn status responses.*)

\* The eleven required fields in the order serverinfo lists them here.
FieldOrder ==
    <<K_virtualserver_clientsonline, K_virtualserver_queryclientsonline,
      K_virtualserver_total_ping,
      K_connection_bandwidth_sent_last_second_total,
      K_connection_bandwidth_received_last_second_total,
      K_connection_filetransfer_bandwidth_sent,
      K_connection_filetransfer_bandwidth_received,
      K_virtualserver_total_packetloss_speech,
      K_virtualserver_total_packetloss_keepalive,
      K_virtualserver_total_packetloss_control,
      K_virtualserver_total_packetloss_total>>

\* Marks a token that is left out of the line (0 is no byte of a token).
Gone == <<0>>

Present(t) == t # Gone

RECURSIVE JoinSpace(_)
\* " ".join(tokens)
JoinSpace(tokens) ==
    IF tokens = <<>> THEN <<>>
    ELSE IF Len(tokens) = 1 THEN tokens[1]
    ELSE tokens[1] \o <<32>> \o JoinSpace(Tail(tokens))

\* Values int() accepts: "0", "2", "10", "-1", "+3".
IntTexts == {<<48>>, <<50>>, <<49, 48>>, <<45, 49>>, <<43, 51>>}

\* Values float() accepts: "0.05", "1e-3", ".5", "7", "nan", "-inf".
FloatTexts ==
    {<<48, 46, 48, 53>>, <<49, 101, 45, 51>>, <<46, 53>>, <<55>>,
     <<110, 97, 110>>, <<45, 105, 110, 102>>}

\* Values neither accepts: "", "x", "1,5", "--1"; and "1.5", which only
\* int() rejects.
BadTexts == {<<>>, <<120>>, <<49, 44, 53>>, <<45, 45, 49>>}

FractionText == <<49, 46, 53>>

\* The tokens field number i may be given as: left out, the bare key
\* without "=", or the key with a value of each kind.
FieldVariants(i) ==
    LET key == FieldOrder[i]
        values == BadTexts \cup
                  (IF key \in IntFields THEN IntTexts \cup {FractionText}
                   ELSE FloatTexts)
    IN  {Gone, key} \cup {Token(key, v) : v \in values}

\* The status line whose fields i and j are given as the tokens t and u
\* and whose other fields are as in StatusLine.
LineWith(i, t, j, u) ==
    LET good(k) == Token(FieldOrder[k],
                         IF FieldOrder[k] \in IntFields THEN Digit1
                         ELSE <<48, 46, 48, 53>>)
        tokens == [k \in 1..Len(FieldOrder) |->
                      IF k = i THEN t ELSE IF k = j THEN u ELSE good(k)]
    IN  JoinSpace(SelectSeq(tokens, Present))

\* The status lines fed to the extractor: every pair of accepted values
\* of the two client counts, every variant of every single field, and a
\* line that carries the first field twice.
ExtractLines ==
    {LineWith(1, Token(FieldOrder[1], a), 2, Token(FieldOrder[2], b)) :
        a \in IntTexts, b \in IntTexts}
    \cup UNION {{LineWith(i, t, i, t) : t \in FieldVariants(i)} :
                    i \in 1..Len(FieldOrder)}
    \cup {StatusLine(Digit2) \o <<32>>
            \o Token(K_virtualserver_clientsonline, <<49, 48>>)}

\* What _get_raw_data returned: a terminated response, or None.
ExtractInputs ==
    {TextVal(l \o LineSep \o ReplyOk) : l \in ExtractLines} \cup {NoneVal}

ExtractInit ==
    /\ phase = "running"
    /\ user = "serveradmin"
    /\ passwd = "secret"
    /\ channel_id = "None"
    /\ sock = "open"
    /\ health = "good"
    /\ faults = 0
    /\ wire = <<>>
    /\ peer = "up"
    /\ stack = <<Frame("_get_data", "L295r", NoCmd)>>
    /\ exc = "none"
    /\ retval \in ExtractInputs
    /\ io = <<Cmd("reply", retval.t)>>
    /\ ev = Event("return", "_get_raw_data", "data", retval, <<>>)
    /\ calls = MaxCalls

ExtractNext ==
    \/ GetData_L301
    \/ GetData_L327

SpecExtract == ExtractInit /\ [][ExtractNext]_vars
----------------------------------------------------------------------------
(* Properties.                                                             *)

Returned(fn) == ev.kind \in {"return", "host_return"} /\ ev.fn = fn

Raised(fn) == ev.kind \in {"unwind", "host_raise"} /\ ev.fn = fn

Written(names) == {i \in 1..Len(io) : io[i].name \in names}

\* C1: _disconnect() is always safe to call: a call by the host, on a
\* session that never connected, on a broken socket or for the second time,
\* never raises, and it returns with no socket left.
C1_DisconnectNeverRaises ==
    /\ ~(ev.kind = "host_raise" /\ ev.fn = "_disconnect")
    /\ (ev.kind = "host_return" /\ ev.fn = "_disconnect") => sock = "None"

\* C2: a receive whose wait timed out ends after that one wait: no select
\* is run while a timed-out _receive is still on the stack, such a _receive
\* is not left by an exception, and when it returns there is no socket.
C2_TimeoutEndsReceive ==
    /\ \A i \in Frames("_receive") :
          (i < Len(stack) /\ stack[i].how = "timeout") => ev.kind # "select"
    /\ ~(Raised("_receive") /\ ev.note = "timeout")
    /\ (Returned("_receive") /\ ev.note = "timeout") => sock = "None"

\* C3: a tick never raises to the host: every call of _get_data by the
\* host ends by returning a record or None.
C3_TickNeverRaises ==
    ~(ev.kind = "host_raise" /\ ev.fn = "_get_data")

\* C4: once a handshake call of _connect has failed, no handshake command
\* is written to the transport any more, and _connect ends with no socket.
HandshakeNames == {"login", "use", "clientupdate", "whoami", "clientmove"}

C4_HandshakeAbortsAtFirstFailure ==
    /\ \A i \in Frames("_connect") :
          stack[i].how = "step_failed"
              => ~(ev.kind = "write" /\ ev.how \in HandshakeNames)
    /\ (Returned("_connect") /\ ev.note = "step_failed") => sock = "None"

\* C5: framing round trip: however a terminator-delimited response is split
\* into partial reads, _receive returns the text it returns when the whole
\* response arrives in one read.
C5_FramingRoundTrip ==
    (stack = <<>> /\ ev.fn = "_receive")
        => /\ ev.kind = "host_return"
           /\ ev.val.t = Accumulate(<<>>, io[1].arg)

\* C6: when recv returns no bytes (peer closed), _receive returns the text
\* accumulated so far and the session has been torn down: no socket is left.
C6_PeerCloseTearsDown ==
    (Returned("_receive") /\ ev.how = "peer_closed")
        => /\ ev.val.t = ev.data
           /\ sock = "None"

\* C7: a _send whose socket write raised returns False, and there is no
\* socket left when it returns.
C7_SendFailureReturnsFalse ==
    /\ ~(Raised("_send") /\ ev.note = "write_failed")
    /\ (Returned("_send") /\ ev.note = "write_failed")
          => ev.val = BoolVal(FALSE) /\ sock = "None"

\* C8: half-duplex: no command is written to the transport while a _receive
\* is in progress.
C8_HalfDuplex ==
    ev.kind = "write" => Frames("_receive") = {}

\* C9: a malformed status response only skips the tick: when _get_data
\* received a terminated response and could not extract the record, it
\* returns None with the socket still open, and the tick has neither
\* written quit nor closed the socket.
C9_MalformedLeavesSession ==
    (ev.kind = "host_return" /\ ev.fn = "_get_data"
        /\ ev.note = "text" /\ CheckRawData(ev.data) /\ ~ExtractOk(ev.data))
        => /\ ev.val = NoneVal
           /\ sock = "open"
           /\ Written({"quit", "close"}) = {}

C9_Witness ==
    /\ ev.kind = "host_return" /\ ev.fn = "_get_data"
    /\ ev.note = "text" /\ CheckRawData(ev.data) /\ ~ExtractOk(ev.data)
    /\ ev.val = NoneVal
    /\ sock = "open"

\* C10: check() fails closed on credentials: with the user or the password
\* missing or empty it returns False, and it makes no connection attempt:
\* no transport event, no socket, no call in progress.
C10_CheckFailsClosed ==
    (ev.kind = "check" /\ (user = "" \/ passwd = ""))
        => /\ ev.val = BoolVal(FALSE)
           /\ phase = "disabled"
           /\ io = <<>>
           /\ sock = "None"
           /\ stack = <<>>

C10_Witness ==
    /\ ev.kind = "check"
    /\ user = "serveradmin"
    /\ passwd = ""
    /\ ev.val = BoolVal(FALSE)
    /\ phase = "disabled"


\* The value of field k on the line is one the conversion of k accepts:
\* int() for the counts and bandwidths, float() for ping and packet loss.
Coercible(line, k) ==
    IF k \in IntFields THEN PyInt(Lookup(line, k)).ok
    ELSE PyFloat(Lookup(line, k)).ok

\* Every required field is present on the line and numeric.
AllPresentNumeric(line) ==
    \A i \in 1..Len(FieldOrder) :
        HasKey(line, FieldOrder[i]) /\ Coercible(line, FieldOrder[i])

\* The status line _get_data was given.
GivenLine == FirstLine(io[1].arg)

\* C11: for a status line with all required fields present and numeric,
\* _get_data returns a record in which connected_total and
\* connected_queries are the integer values of virtualserver_clientsonline
\* and virtualserver_queryclientsonline, connected_users is their
\* difference, and connected_users is not negative when queries <= total.
C11_ConnectedUsers ==
    (stack = <<>> /\ ev.fn = "_get_data" /\ AllPresentNumeric(GivenLine))
        => /\ ev.kind = "host_return"
           /\ ev.val.k = "dict"
           /\ LET m == ev.val.m
                  total == PyInt(Lookup(GivenLine,
                                        K_virtualserver_clientsonline)).v
                  queries == PyInt(Lookup(GivenLine,
                                        K_virtualserver_queryclientsonline)).v
              IN  /\ m.connected_total = total
                  /\ m.connected_queries = queries
                  /\ m.connected_users
                        = m.connected_total - m.connected_queries
                  /\ queries <= total => m.connected_users >= 0

\* The line with 10 clients, 2 of them query clients, gave 8 users.
C11_Witness ==
    /\ ev.kind = "host_return" /\ ev.fn = "_get_data"
    /\ Lookup(GivenLine, K_virtualserver_clientsonline) = <<49, 48>>
    /\ Lookup(GivenLine, K_virtualserver_queryclientsonline) = <<50>>
    /\ ev.val.k = "dict"
    /\ ev.val.m.connected_total = 10
    /\ ev.val.m.connected_queries = 2
    /\ ev.val.m.connected_users = 8

\* C12: extraction is all-or-nothing: when one of the eleven required
\* fields is absent from the first line, or its value is not numeric,
\* _get_data returns None (no record, no partial record) and does not
\* raise.
C12_AllOrNothing ==
    (stack = <<>> /\ ev.fn = "_get_data" /\ ~AllPresentNumeric(GivenLine))
        => /\ ev.kind = "host_return"
           /\ ev.val = NoneVal

\* The line without virtualserver_clientsonline gave None.
C12_Witness ==
    /\ ev.kind = "host_return" /\ ev.fn = "_get_data"
    /\ ~HasKey(GivenLine, K_virtualserver_clientsonline)
    /\ \A i \in 2..Len(FieldOrder) :
          HasKey(GivenLine, FieldOrder[i]) /\ Coercible(GivenLine, FieldOrder[i])
    /\ ev.val = NoneVal

\* The names of the transport events of the current host call.
IoNames == [i \in 1..Len(io) |-> io[i].name]

\* The handshake of a collector with the given channel id.
Handshake(ch) ==
    IF Truthy(ch)
    THEN <<"login", "use", "clientupdate", "whoami", "clientmove">>
    ELSE <<"login", "use", "clientupdate">>

\* The _connect frames none of whose handshake calls has failed so far.
CleanConnects == {i \in Frames("_connect") : stack[i].how = "none"}

\* C13: in a _connect all of whose steps succeed the commands are written
\* in the order login, use, clientupdate and, only with a channel id,
\* whoami, clientmove; when a command is written no _receive is in
\* progress and the responses to the commands before it have been read to
\* the end; and _connect returns only after the whole sequence, with the
\* last response read and the socket open.
C13_HandshakeOrder ==
    /\ (ev.kind = "write" /\ ev.how \in HandshakeNames
            /\ CleanConnects # {})
          => /\ Len(io) - 1 <= Len(Handshake(channel_id))
             /\ IoNames = <<"open">>
                    \o SubSeq(Handshake(channel_id), 1, Len(io) - 1)
             /\ Frames("_receive") = {}
             /\ \E r \in ServerReplies(ev.how) : wire = r.bytes
    /\ (Returned("_connect") /\ ev.how = "ready" /\ ev.note = "none")
          => /\ IoNames = <<"open">> \o Handshake(channel_id)
             /\ wire = <<>>
             /\ sock = "open"

\* A _connect with a channel id has returned after all five commands.
C13_Witness ==
    /\ Returned("_connect") /\ ev.how = "ready" /\ ev.note = "none"
    /\ Truthy(channel_id)
    /\ IoNames = <<"open", "login", "use", "clientupdate", "whoami",
                   "clientmove">>
    /\ sock = "open"

\* C14: a _disconnect() the host calls on a connected session, whose quit
\* was written and which no transport fault disturbs, terminates whatever
\* the server does: quit is written once, _disconnect is not entered
\* again, the call does not raise, and it returns with the socket closed.
C14_DisconnectOnce ==
    (stack # <<>> /\ stack[1].fn = "_disconnect"
        /\ io # <<>> /\ io[1].name = "quit" /\ faults = MaxFaults)
        => /\ Cardinality(Frames("_disconnect")) = 1
           /\ Cardinality(Written({"quit"})) = 1
           /\ exc = "none"

\* C15: _connect does not retry: in one host call at most one _connect is
\* entered, the transport is opened at most once and each handshake
\* command is written at most once, on every path.
C15_NoSelfRetry ==
    /\ Cardinality(Frames("_connect")) <= 1
    /\ Cardinality(Written({"open", "open_failed"})) <= 1
    /\ \A n \in HandshakeNames : Cardinality(Written({n})) <= 1

\* A _connect has ended through its handler after a command was written.
C15_Witness ==
    /\ Returned("_connect") /\ ev.how = "failed"
    /\ Cardinality(Written({"open"})) = 1
    /\ Cardinality(Written({"login"})) = 1

\* The digit strings that follow an occurrence of "client_id=" in text and
\* end where the digits end.
NumericClientIds(text) ==
    {SubSeq(text, i + Len(ClientIdKey), j) :
        <<i, j>> \in {p \in (1..Len(text)) \X (1..Len(text)) :
            /\ OccursAt(text, ClientIdKey, p[1])
            /\ p[2] >= p[1] + Len(ClientIdKey)
            /\ \A k \in (p[1] + Len(ClientIdKey))..p[2] : IsDigit(text[k])
            /\ p[2] = Len(text) \/ ~IsDigit(text[p[2] + 1])}}

\* C16: the clid of clientmove is a non-empty digit string captured after
\* "client_id=" in the whoami response: when _connect goes on from line
\* 210 to send clientmove the response holds such an id and the command
\* carries it, and a clientmove that is written carries a non-empty digit
\* string.  (Otherwise no clientmove is sent and line 210 raises.)
C16_ClientMoveNeedsClientId ==
    /\ (ev.kind = "call" /\ ev.fn = "_send" /\ ev.how = "clientmove")
          => Top.req.arg \in NumericClientIds(retval.t)
    /\ (ev.kind = "write" /\ ev.how = "clientmove")
          => /\ io[Len(io)].arg # <<>>
             /\ \A k \in 1..Len(io[Len(io)].arg) : IsDigit(io[Len(io)].arg[k])

\* The text a _receive that has just ended held: what it returned, or what
\* it had accumulated when an exception left it.
ReceivedText == IF Returned("_receive") THEN ev.val.t ELSE ev.data

\* C17: a _receive returns on a terminator match only when its text ends
\* with "msg=ok" or "msg=invalid\schannelID" followed by the line end; a
\* _receive whose text ends with another status line (the rejected login)
\* never returns as a completed response: it ends through the timeout, the
\* select error or the close of the peer.
C17_OnlyTwoTerminators ==
    /\ (Returned("_receive") /\ ev.how = "terminator")
          => \/ EndsWith(ev.val.t, TermOk)
             \/ EndsWith(ev.val.t, TermInvalidChannel)
    /\ ((Returned("_receive") \/ Raised("_receive"))
            /\ EndsWith(ReceivedText, ReplyBadLogin))
          => /\ ev.how # "terminator"
             /\ \/ ev.note \in {"timeout", "select_error"}
                \/ ev.how = "peer_closed"

\* The _receive that read the rejected login has ended after its timeout.
C17_Witness ==
    /\ Returned("_receive")
    /\ ev.val.t = ReplyBadLogin
    /\ ev.note = "timeout"

\* C18: the reply msg=invalid\schannelID to clientmove is a completed
\* response and no failure: from the point where the _receive of line 212
\* has returned it, _connect returns normally, the socket stays open and
\* healthy, and neither quit nor a close has happened.
C18_InvalidChannelIsReady ==
    [][(/\ At("_connect", "L213")
        /\ ev.kind = "return" /\ ev.fn = "_receive"
        /\ retval.k = "text" /\ EndsWith(retval.t, TermInvalidChannel))
          => /\ ev'.kind = "return" /\ ev'.fn = "_connect"
             /\ ev'.how = "ready"
             /\ sock' = "open" /\ health' = "good"
             /\ \A i \in 1..Len(io') : io'[i].name \notin {"quit", "close"}
      ]_vars

\* The _receive of line 212 has returned the invalid-channel reply as a
\* completed response, on an open socket.
C18_Witness ==
    /\ At("_connect", "L213")
    /\ ev.kind = "return" /\ ev.fn = "_receive" /\ ev.how = "terminator"
    /\ ev.val.t = ReplyBadChannel
    /\ io[Len(io)].name = "clientmove"
    /\ sock = "open"
====
